---- MODULE Spec2Model ----
(***************************************************************************)
(* The activities page controller of src/static/app.js: fetchActivities,   *)
(* the signup form's submit handler, unregisterParticipant and the hide    *)
(* timer, run on one event loop against an HTTP server that answers each   *)
(* request in any way and in any order.  The server's roster only moves    *)
(* forward, from version 0 to version MaxVer: a response to GET            *)
(* /activities carries the version the server held when it answered, which *)
(* is no older than any version the page had shown when it sent the        *)
(* request.                                                                *)
(***************************************************************************)
EXTENDS Integers, Sequences, FiniteSets, TLC

\* ------------------------------------------------------------------ bounds
\* User actions (form submissions plus clicks on a delete button) in a run.
MaxActions == 2
\* The newest version of the server's roster in a run (the oldest is 0).
MaxVer == 1

\* ------------------------------------------------------- program constants
\* setTimeout(..., 5000)
HideDelay == 5000
\* The clock advances in steps of half the delay.
TickMs == HideDelay \div 2
\* A message's age is tracked up to here: "later than the delay".
LateAge == HideDelay + TickMs

FailedToLoad == "Failed to load activities. Please try again later."
NoParticipants == "No participants yet"
GenericError == "An error occurred"
SignupFailed == "Failed to sign up. Please try again."
UnregisterFailed == "Failed to unregister participant."
UnregisterError == "Error unregistering participant."
NoAlert == ""

\* ------------------------------------------------------------ the server
\* What GET /activities answers at each version of the server's roster, in
\* response order.  has_participants = FALSE is a record without the
\* participants field (details.participants is undefined).
Activity(n, max, ps, has) ==
    [name |-> n, description |-> "d", schedule |-> "s",
     max_participants |-> max, participants |-> ps, has_participants |-> has]

RosterTable ==
    << << Activity("Chess Club", 2, <<"a@x.com">>, TRUE),
          Activity("Art", 1, <<>>, TRUE) >>,
       << Activity("Chess Club", 1, <<"b@x.com", "c@x.com">>, TRUE),
          Activity("Art", 1, <<>>, TRUE) >>,
       << Activity("Chess Club", 2, <<"b@x.com">>, TRUE) >> >>

RosterAt(v) == RosterTable[(v % Len(RosterTable)) + 1]

\* The same roster with its last record malformed.
Malformed(roster) == [roster EXCEPT ![Len(roster)].has_participants = FALSE]

\* Bodies of a signup response: undecodable, or a JSON object with some of
\* the fields message and detail (has_* = FALSE: the field is absent).
Body(json, hm, m, hd, d) ==
    [json |-> json, has_message |-> hm, message |-> m,
     has_detail |-> hd, detail |-> d]

BadJson == Body(FALSE, FALSE, "", FALSE, "")

\* How a POST .../signup can end: the fetch rejects, or a response arrives
\* with a status (ok: 2xx) and a body.
SignupResponses ==
    { [st |-> "neterr", ok |-> FALSE, body |-> BadJson],
      [st |-> "http", ok |-> TRUE, body |-> Body(TRUE, TRUE, "Signed up", FALSE, "")],
      [st |-> "http", ok |-> TRUE, body |-> BadJson],
      [st |-> "http", ok |-> FALSE, body |-> Body(TRUE, FALSE, "", TRUE, "Already signed up")],
      [st |-> "http", ok |-> FALSE, body |-> Body(TRUE, FALSE, "", TRUE, "")],
      [st |-> "http", ok |-> FALSE, body |-> Body(TRUE, FALSE, "", FALSE, "")],
      [st |-> "http", ok |-> FALSE, body |-> BadJson] }

\* How a GET /activities can end: the fetch rejects, the body does not
\* decode, or it decodes to the roster the server held when it answered
\* ("malformed": to the roster it held when the request was sent, with a
\* malformed record).
LoadResponses == {"neterr", "badjson", "json", "malformed"}

Decodes(st) == st \in {"json", "malformed"}

\* The decoded body of a response that ended st at roster version v.
Decoded(st, v) == IF st = "malformed" THEN Malformed(RosterAt(v)) ELSE RosterAt(v)

\* How a POST .../unregister can end; its body is never read.
UnregResponses ==
    { [st |-> "neterr", ok |-> FALSE],
      [st |-> "http", ok |-> TRUE],
      [st |-> "http", ok |-> FALSE] }

\* What the user types into the email field.
InputEmails == {"c@x.com"}

\* ------------------------------------------------------------- rendering
Min(a, b) == IF a <= b THEN a ELSE b
Max(a, b) == IF a >= b THEN a ELSE b

\* Mutant: a full activity shows no fewer than zero spots.
SpotsLeftClamped(details) ==
    Max(0, details.max_participants - Len(details.participants))

\* details.max_participants - details.participants.length
SpotsLeft(details) == details.max_participants - Len(details.participants)

\* Mutant: every delete button of a card is bound to the email of the card's
\* last row.
RowsBoundToLast(name, participants) ==
    [i \in 1..Len(participants) |->
        [email |-> participants[i],
         onclick |-> [activity |-> name,
                      email |-> participants[Len(participants)]]]]

\* One <li> per participant: the email and a delete button whose onclick
\* closes over (name, email).
ParticipantRows(name, participants) ==
    [i \in 1..Len(participants) |->
        [email |-> participants[i],
         onclick |-> [activity |-> name, email |-> participants[i]]]]

\* Mutant: the placeholder is shown on every card, above the rows when
\* there are any.
ActivityCardWithPlaceholder(details) ==
    [name |-> details.name,
     description |-> details.description,
     schedule |-> details.schedule,
     spotsLeft |-> details.max_participants - Len(details.participants),
     rows |-> [i \in 1..Len(details.participants) |->
                 [email |-> details.participants[i],
                  onclick |-> [activity |-> details.name,
                               email |-> details.participants[i]]]],
     placeholder |-> NoParticipants]

\* The card of one activity.
ActivityCard(details) ==
    [name |-> details.name,
     description |-> details.description,
     schedule |-> details.schedule,
     spotsLeft |-> SpotsLeft(details),
     rows |-> IF Len(details.participants) > 0
              THEN ParticipantRows(details.name, details.participants)
              ELSE <<>>,
     placeholder |-> IF Len(details.participants) > 0 THEN "" ELSE NoParticipants]

\* Object.entries(activities).forEach from entry i on: each entry appends a
\* card to the list and an option to the selector; an entry without
\* participants throws at details.participants.length and ends the loop.
RECURSIVE RenderFrom(_, _, _, _)
RenderFrom(cards, opts, roster, i) ==
    IF i > Len(roster)
    THEN [cards |-> cards, options |-> opts, threw |-> FALSE]
    ELSE IF ~roster[i].has_participants
    THEN [cards |-> cards, options |-> opts, threw |-> TRUE]
    ELSE RenderFrom(Append(cards, ActivityCard(roster[i])),
                    Append(opts, roster[i].name), roster, i + 1)

\* Mutant: the list is not cleared before the cards are appended.
KeepList(cards) == cards

\* activitiesList.innerHTML = ""
ClearList(cards) == <<>>

\* The try block of fetchActivities once the body is decoded.
Render(cards, opts, roster) == RenderFrom(ClearList(cards), opts, roster, 1)

\* The list area: the markup's loading text, the cards, or the failure notice.
CardList(cards) == [kind |-> "cards", cards |-> cards, text |-> ""]
FailureNotice == [kind |-> "failed", cards |-> <<>>, text |-> FailedToLoad]
LoadingList == [kind |-> "loading", cards |-> <<>>, text |-> ""]

\* ------------------------------------------------------------------ state
VARIABLES
    loads,        \* GET /activities requests in flight
    signups,      \* POST .../signup requests in flight
    unregs,       \* POST .../unregister requests in flight
    list,         \* #activities-list
    options,      \* the options fetchActivities appended to #activity
    form,         \* #signup-form: the email field and the selected activity
    message,      \* #message: text, class and whether it is hidden
    timers,       \* pending setTimeout callbacks: ms left to each, oldest first
    alert,        \* the text of the open alert(), NoAlert when none is open
    console,      \* the call sites whose console.error has run
    loadsIssued,  \* fetchActivities calls so far
    actions,      \* user actions so far
    okCount,      \* 2xx responses received so far, by kind (see Tally*)
    shownVer,     \* roster version the list shows (-1: none)
    newestShown,  \* newest roster version the list has ever shown (-1: none)
    msgAge        \* ms since the visible status message was shown (-1: none)

vars == << loads, signups, unregs, list, options, form, message, timers,
           alert, console, loadsIssued, actions, okCount, shownVer,
           newestShown, msgAge >>

EmptyForm == [email |-> "", activity |-> ""]

\* Mutant: the form is left as submitted.
ResetKeeps(f) == f

\* signupForm.reset()
Reset(f) == EmptyForm

\* The 2xx responses received: to a signup with a body that decodes
\* (signup) or does not (undecoded), and to an unregister (unreg).
TallySignup(cnt, r) ==
    IF r.st = "http" /\ r.ok
    THEN IF r.body.json THEN [cnt EXCEPT !.signup = @ + 1]
         ELSE [cnt EXCEPT !.undecoded = @ + 1]
    ELSE cnt

TallyUnreg(cnt, r) ==
    IF r.st = "http" /\ r.ok THEN [cnt EXCEPT !.unreg = @ + 1] ELSE cnt

\* A new fetchActivities call, up to its first await; the server answers it
\* with its roster of version v, the newest shown so far, or a later one.
NewLoad(n, v) == [id |-> n, issuedVer |-> v]

Init ==
    /\ loads = {NewLoad(1, 0)}
    /\ signups = {}
    /\ unregs = {}
    /\ list = LoadingList
    /\ options = <<>>
    /\ form = EmptyForm
    /\ message = [text |-> "", kind |-> "", hidden |-> TRUE]
    /\ timers = <<>>
    /\ alert = NoAlert
    /\ console = {}
    /\ loadsIssued = 1
    /\ actions = 0
    /\ okCount = [signup |-> 0, unreg |-> 0, undecoded |-> 0]
    /\ shownVer = -1
    /\ newestShown = -1
    /\ msgAge = -1

\* ------------------------------------------------------------ environment
\* TickMs pass.  A due timer runs at its deadline unless an alert blocks the
\* event loop, so time passes a deadline only while an alert is open.
Tick ==
    /\ \/ alert # NoAlert
       \/ \A k \in DOMAIN timers : timers[k] > 0
    /\ timers' = [k \in DOMAIN timers |-> Max(0, timers[k] - TickMs)]
    /\ msgAge' = IF msgAge < 0 THEN msgAge ELSE Min(LateAge, msgAge + TickMs)
    /\ UNCHANGED << loads, signups, unregs, list, options, form, message, alert,
                    console, loadsIssued, actions, okCount, shownVer,
                    newestShown >>

\* The user closes the alert.
DismissAlert ==
    /\ alert # NoAlert
    /\ alert' = NoAlert
    /\ UNCHANGED << loads, signups, unregs, list, options, form, message,
                    timers, console, loadsIssued, actions, okCount, shownVer,
                    newestShown, msgAge >>

\* --------------------------------------------------------- fetchActivities
\* Mutant: the notice is added to the list, whose cards stay.
CatchListKeeps(lst) == [lst EXCEPT !.text = FailedToLoad]

\* The catch block's list: the notice replaces whatever the list held.
CatchList(lst) == FailureNotice

\* fetchActivities from the resolution of its fetch to its end, on a
\* response that ended st and, when it decodes, carries roster.
FetchOutcome(st, roster, lst, opts) ==
    IF Decodes(st)
    THEN LET r == Render(lst.cards, opts, roster)
         IN  IF r.threw
             THEN [list |-> CatchList(CardList(r.cards)), options |-> r.options,
                   failed |-> TRUE]
             ELSE [list |-> CardList(r.cards), options |-> r.options,
                   failed |-> FALSE]
    ELSE [list |-> CatchList(lst), options |-> opts, failed |-> TRUE]

LoadDone(l, st, v) ==
    /\ alert = NoAlert
    /\ l \in loads
    /\ v \in l.issuedVer..MaxVer
    /\ st # "json" => v = l.issuedVer
    /\ loads' = loads \ {l}
    /\ LET out == FetchOutcome(st, Decoded(st, v), list, options)
       IN  /\ list' = out.list
           /\ options' = out.options
           /\ console' = IF out.failed
                         THEN console \cup {"Error fetching activities:"}
                         ELSE console
           /\ shownVer' = IF out.failed THEN -1 ELSE v
           /\ newestShown' = IF out.failed THEN newestShown
                             ELSE Max(newestShown, v)
    /\ UNCHANGED << signups, unregs, form, message, timers, alert, loadsIssued,
                    actions, okCount, msgAge >>

\* ------------------------------------------------------------ signup form
\* What the user can select: one of the options, nothing when there is none.
Selectable(opts) ==
    IF opts = <<>> THEN {""} ELSE {opts[k] : k \in DOMAIN opts}

\* The user fills the form in and submits it: the handler reads both fields
\* and sends the request.
Submit(e, a) ==
    /\ alert = NoAlert
    /\ actions < MaxActions
    /\ actions' = actions + 1
    /\ form' = [email |-> e, activity |-> a]
    /\ signups' = signups \cup {[id |-> actions + 1, activity |-> a, email |-> e]}
    /\ UNCHANGED << loads, unregs, list, options, message, timers, alert,
                    console, loadsIssued, okCount, shownVer, newestShown, msgAge >>

\* Mutant: the status of the response is not looked at.
SignupOkAlways(r) == TRUE

\* response.ok
SignupOk(r) == r.ok

\* result.message as textContent (an absent field shows as no text)
MessageText(body) == IF body.has_message THEN body.message ELSE ""

\* Mutant: the server's detail is dropped.
DetailDropped(body) == GenericError

\* result.detail || "An error occurred"
DetailOrGeneric(body) ==
    IF body.has_detail /\ body.detail # "" THEN body.detail ELSE GenericError

\* setTimeout(() => messageDiv.classList.add("hidden"), 5000)
HideLater(tms) == Append(tms, HideDelay)

\* Mutant: a completion leaves a status message that is still visible alone.
SignupDoneFirstWins(s, r) ==
    /\ alert = NoAlert
    /\ s \in signups
    /\ signups' = signups \ {s}
    /\ IF r.st = "http" /\ r.body.json
       THEN /\ IF r.ok
               THEN /\ message' = IF message.hidden
                                  THEN [text |-> r.body.message,
                                        kind |-> "success", hidden |-> FALSE]
                                  ELSE message
                    /\ form' = EmptyForm
                    /\ loads' = loads \cup {NewLoad(loadsIssued + 1, Max(0, newestShown))}
                    /\ loadsIssued' = loadsIssued + 1
               ELSE /\ message' = IF message.hidden
                                  THEN [text |-> IF r.body.has_detail /\ r.body.detail # ""
                                                 THEN r.body.detail ELSE GenericError,
                                        kind |-> "error", hidden |-> FALSE]
                                  ELSE message
                    /\ UNCHANGED << form, loads, loadsIssued >>
            /\ timers' = Append(timers, HideDelay)
            /\ UNCHANGED console
       ELSE /\ message' = IF message.hidden
                          THEN [text |-> SignupFailed, kind |-> "error",
                                hidden |-> FALSE]
                          ELSE message
            /\ console' = console \cup {"Error signing up:"}
            /\ UNCHANGED << form, loads, loadsIssued, timers >>
    /\ okCount' = TallySignup(okCount, r)
    /\ msgAge' = 0
    /\ UNCHANGED << unregs, list, options, alert, actions, shownVer,
                    newestShown >>

\* The handler from the resolution of its fetch to its end, on response r.
SignupDone(s, r) ==
    /\ alert = NoAlert
    /\ s \in signups
    /\ signups' = signups \ {s}
    /\ IF r.st = "http" /\ r.body.json
       THEN /\ IF SignupOk(r)
               THEN /\ message' = [text |-> MessageText(r.body),
                                   kind |-> "success", hidden |-> FALSE]
                    /\ form' = Reset(form)
                    /\ loads' = loads \cup {NewLoad(loadsIssued + 1, Max(0, newestShown))}
                    /\ loadsIssued' = loadsIssued + 1
               ELSE /\ message' = [text |-> DetailOrGeneric(r.body),
                                   kind |-> "error", hidden |-> FALSE]
                    /\ UNCHANGED << form, loads, loadsIssued >>
            /\ timers' = HideLater(timers)
            /\ UNCHANGED console
       ELSE /\ message' = [text |-> SignupFailed, kind |-> "error",
                           hidden |-> FALSE]
            /\ console' = console \cup {"Error signing up:"}
            /\ UNCHANGED << form, loads, loadsIssued, timers >>
    /\ okCount' = TallySignup(okCount, r)
    /\ msgAge' = 0
    /\ UNCHANGED << unregs, list, options, alert, actions, shownVer,
                    newestShown >>

\* Mutant: the timeout's callback also refreshes the list.
TimerFireReloads ==
    /\ alert = NoAlert
    /\ timers # <<>>
    /\ Head(timers) = 0
    /\ message' = [message EXCEPT !.hidden = TRUE]
    /\ timers' = Tail(timers)
    /\ msgAge' = -1
    /\ loads' = loads \cup {NewLoad(loadsIssued + 1, Max(0, newestShown))}
    /\ loadsIssued' = loadsIssued + 1
    /\ UNCHANGED << signups, unregs, list, options, form, alert, console,
                    actions, okCount, shownVer, newestShown >>

\* The oldest timeout's callback: messageDiv.classList.add("hidden")
TimerFire ==
    /\ alert = NoAlert
    /\ timers # <<>>
    /\ Head(timers) = 0
    /\ message' = [message EXCEPT !.hidden = TRUE]
    /\ timers' = Tail(timers)
    /\ msgAge' = -1
    /\ UNCHANGED << loads, signups, unregs, list, options, form, alert, console,
                    loadsIssued, actions, okCount, shownVer, newestShown >>

\* -------------------------------------------------- unregisterParticipant
\* A click on the delete button of row j of card i: its onclick calls
\* unregisterParticipant with the pair it closed over.
Click(i, j) ==
    /\ alert = NoAlert
    /\ actions < MaxActions
    /\ list.kind = "cards"
    /\ i \in DOMAIN list.cards
    /\ j \in DOMAIN list.cards[i].rows
    /\ actions' = actions + 1
    /\ unregs' = unregs \cup
                 {[id |-> actions + 1,
                   activity |-> list.cards[i].rows[j].onclick.activity,
                   email |-> list.cards[i].rows[j].onclick.email]}
    /\ UNCHANGED << loads, signups, list, options, form, message, timers, alert,
                    console, loadsIssued, okCount, shownVer, newestShown, msgAge >>

\* Mutant: the status of the response is not looked at.
UnregisterOkAlways(r) == TRUE

\* response.ok
UnregisterOk(r) == r.ok

\* Mutant: a failed unregister reports through the status message, as a
\* failed signup does.
UnregDoneBanner(u, r) ==
    /\ u \in unregs
    /\ alert = NoAlert
    /\ unregs' = unregs \ {u}
    /\ IF r.st = "http" /\ r.ok
       THEN /\ loads' = loads \cup {NewLoad(loadsIssued + 1, Max(0, newestShown))}
            /\ loadsIssued' = loadsIssued + 1
            /\ UNCHANGED << message, msgAge >>
       ELSE /\ message' = [text |-> UnregisterFailed, kind |-> "error",
                           hidden |-> FALSE]
            /\ msgAge' = 0
            /\ UNCHANGED << loads, loadsIssued >>
    /\ okCount' = TallyUnreg(okCount, r)
    /\ UNCHANGED << signups, list, options, form, timers, alert, console,
                    actions, shownVer, newestShown >>

\* unregisterParticipant from the resolution of its fetch to its end, on
\* response r.
UnregDone(u, r) ==
    /\ u \in unregs
    /\ alert = NoAlert
    /\ unregs' = unregs \ {u}
    /\ IF r.st = "http"
       THEN IF UnregisterOk(r)
            THEN /\ loads' = loads \cup {NewLoad(loadsIssued + 1, Max(0, newestShown))}
                 /\ loadsIssued' = loadsIssued + 1
                 /\ UNCHANGED alert
            ELSE /\ alert' = UnregisterFailed
                 /\ UNCHANGED << loads, loadsIssued >>
       ELSE /\ alert' = UnregisterError
            /\ UNCHANGED << loads, loadsIssued >>
    /\ okCount' = TallyUnreg(okCount, r)
    /\ UNCHANGED << signups, list, options, form, message, timers, console,
                    actions, shownVer, newestShown, msgAge >>

\* ---------------------------------------------------------- specification
Next ==
    \/ Tick
    \/ DismissAlert
    \/ \E l \in loads, st \in LoadResponses, v \in 0..MaxVer : LoadDone(l, st, v)
    \/ \E e \in InputEmails, a \in Selectable(options) : Submit(e, a)
    \/ \E s \in signups, r \in SignupResponses : SignupDone(s, r)
    \/ TimerFire
    \/ \E i \in 1..Len(list.cards) :
          \E j \in 1..Len(list.cards[i].rows) : Click(i, j)
    \/ \E u \in unregs, r \in UnregResponses : UnregDone(u, r)

Spec == Init /\ [][Next]_vars

\* ------------------------------------------------------------------ steps
\* The steps the properties below speak of.
LoadCompletes(st, v) == loads' # loads /\ \E l \in loads : LoadDone(l, st, v)
LoadSucceeds == \E v \in 0..MaxVer : LoadCompletes("json", v)
LoadFails ==
    \E st \in LoadResponses \ {"json"}, v \in 0..MaxVer : LoadCompletes(st, v)
SignupCompletes(r) == signups' # signups /\ \E s \in signups : SignupDone(s, r)
UnregCompletes(r) == unregs' # unregs /\ \E u \in unregs : UnregDone(u, r)
Is2xx(r) == r.st = "http" /\ r.ok
Non2xx(r) == r.st = "http" /\ ~r.ok
OneMoreLoad ==
    /\ loadsIssued' = loadsIssued + 1
    /\ Cardinality(loads') = Cardinality(loads) + 1
    /\ loads \subseteq loads'
NoNewLoad == loadsIssued' = loadsIssued /\ loads' \subseteq loads

\* What a successful signup does: one more load, the form cleared, the
\* server's message shown as a success.
SignupSucceeded(r) ==
    /\ OneMoreLoad
    /\ form' = EmptyForm
    /\ message' = [text |-> r.body.message, kind |-> "success", hidden |-> FALSE]

\* The cards of a roster, one per activity, in response order.
CardsOf(roster) == [i \in 1..Len(roster) |-> ActivityCard(roster[i])]
NamesOf(cards) == [i \in 1..Len(cards) |-> cards[i].name]

\* ----------------------------------------------------------------- claims
\* C1: while every completed load has succeeded, the options load() put in
\* the selector are exactly the activity names of the roster the list shows
\* (that of the most recently completed load), each name once.
C1_OptionsAreLastRoster ==
    (list.kind = "cards" /\ "Error fetching activities:" \notin console) =>
        options = NamesOf(list.cards)

\* C2: the status message is hidden exactly HideDelay ms after it was last
\* shown: a later message restarts the delay, so no earlier timer hides it.
C2_HiddenExactlyAfterDelay ==
    [][(~message.hidden /\ message.hidden') => msgAge = HideDelay]_vars

\* C3: whatever the outcome of the submission, a visible status message has a
\* hide timer pending that will hide it.
C3_VisibleMessageHasTimer == ~message.hidden => timers # <<>>

C5_Non2xxShowsDetailOrFallback ==
    [][\A r \in SignupResponses :
          (SignupCompletes(r) /\ Non2xx(r)) =>
              /\ form' = form
              /\ message'.kind = "error"
              /\ message'.text = IF r.body.has_detail THEN r.body.detail
                                 ELSE GenericError]_vars

\* C5 amended: every signup completing on a non-2xx response leaves the form
\* as it is and shows an error: the server's detail when the body decodes and
\* detail is a non-empty text, "An error occurred" when the body decodes and
\* detail is absent or empty, "Failed to sign up. Please try again." when the
\* body does not decode.
C5_Non2xxShowsDetailOrOneOfTwo ==
    [][\A r \in SignupResponses :
          (SignupCompletes(r) /\ Non2xx(r)) =>
              /\ form' = form
              /\ NoNewLoad
              /\ message'.kind = "error"
              /\ ~message'.hidden
              /\ message'.text =
                    IF ~r.body.json THEN SignupFailed
                    ELSE IF r.body.has_detail /\ r.body.detail # ""
                    THEN r.body.detail
                    ELSE GenericError]_vars

C5_Witness ==
    /\ message = [text |-> "Already signed up", kind |-> "error", hidden |-> FALSE]
    /\ form.email # ""
    /\ loadsIssued = 1

\* C6: an unregister completing on a 2xx response issues exactly one load and
\* opens no alert; one completing on a non-2xx response or on a transport
\* failure opens an alert and issues no load.
C6_UnregisterReloadsOrAlerts ==
    [][\A r \in UnregResponses :
          UnregCompletes(r) =>
              IF Is2xx(r)
              THEN OneMoreLoad /\ alert' = NoAlert
              ELSE NoNewLoad /\ alert' \in {UnregisterFailed, UnregisterError}]_vars

C6_Witness == okCount.unreg > 0 /\ alert # NoAlert /\ loadsIssued = 2

\* C7: every load completing on a well-formed roster leaves in the list exactly
\* the cards of that roster, and nothing else changes the list; so the list
\* shows the roster of the load that completed last, whichever was issued last.
C7_ListIsLastCompletedRoster ==
    [][/\ \A v \in 0..MaxVer :
             LoadCompletes("json", v) => list' = CardList(CardsOf(RosterAt(v)))
       /\ list' # list => \E st \in LoadResponses, v \in 0..MaxVer :
                              LoadCompletes(st, v)]_vars

\* An older roster on display after a newer one was shown.
C7_Witness == list.kind = "cards" /\ shownVer >= 0 /\ shownVer < newestShown

\* C8: a load ending on a transport or decode failure leaves only the failure
\* notice in the list, logs the error and issues no other request.
C8_FailedLoadShowsOnlyNotice ==
    [][\A st \in {"neterr", "badjson"}, v \in 0..MaxVer :
          LoadCompletes(st, v) =>
              /\ list' = [kind |-> "failed", cards |-> <<>>, text |-> FailedToLoad]
              /\ "Error fetching activities:" \in console'
              /\ loadsIssued' = loadsIssued
              /\ Cardinality(loads') = Cardinality(loads) - 1
              /\ loads' \subseteq loads
              /\ UNCHANGED << signups, unregs >>]_vars

\* The notice where cards were on display.
C8_Witness ==
    /\ list = [kind |-> "failed", cards |-> <<>>, text |-> FailedToLoad]
    /\ "Error fetching activities:" \in console
    /\ newestShown >= 0

\* C9 as stated: once the failure notice is in the list, nothing issues a load
\* and nothing replaces the notice.
C9_NoticeIsFinal ==
    [][list.kind = "failed" => (list'.kind = "failed" /\ NoNewLoad)]_vars

\* C9 amended: once the failure notice is in the list, the failed load is not
\* retried and the notice stays until a load completes on a well-formed
\* roster; a load is issued only by a signup or an unregister completing on a
\* 2xx response.
C9_NoticeStaysUntilALoadSucceeds ==
    [][list.kind = "failed" =>
          /\ list' # list => (LoadSucceeds /\ list'.kind = "cards")
          /\ LoadFails => NoNewLoad
          /\ ~NoNewLoad =>
                \/ \E r \in SignupResponses : SignupCompletes(r) /\ Is2xx(r)
                \/ \E r \in UnregResponses : UnregCompletes(r) /\ Is2xx(r)]_vars

\* A roster on display after a load has failed.
C9_Witness ==
    /\ list.kind = "cards"
    /\ "Error fetching activities:" \in console
    /\ okCount.signup > 0

\* C10: an unregister, from the click to its completion, leaves the status
\* message and its timers alone and reports a failure by an alert; a signup,
\* from the submission to its completion, opens no alert and reports by
\* showing the status message.
C10_ChannelsStayDistinct ==
    [][/\ \A r \in UnregResponses :
             UnregCompletes(r) =>
                 /\ UNCHANGED << message, timers, msgAge >>
                 /\ ~Is2xx(r) => alert' # NoAlert
       /\ (Cardinality(unregs') > Cardinality(unregs)) =>
             UNCHANGED << message, timers, msgAge, alert >>
       /\ \A r \in SignupResponses :
             SignupCompletes(r) =>
                 /\ alert' = alert
                 /\ ~message'.hidden
                 /\ msgAge' = 0
       /\ (Cardinality(signups') > Cardinality(signups)) =>
             UNCHANGED << message, timers, msgAge, alert >>]_vars

\* A failed unregister's alert over a visible status message whose timer is
\* pending.
C10_Witness == alert # NoAlert /\ ~message.hidden /\ timers # <<>>

\* The roster whose cards the list shows.
ShownRoster == RosterAt(shownVer)

\* C11: every card on display shows as spots left the activity's
\* max_participants minus the number of its participants, unclamped: the
\* value is below zero when the participants exceed max_participants.
C11_SpotsLeftIsUnclamped ==
    list.kind = "cards" =>
        /\ Len(list.cards) = Len(ShownRoster)
        /\ \A i \in DOMAIN list.cards :
              list.cards[i].spotsLeft =
                  ShownRoster[i].max_participants - Len(ShownRoster[i].participants)

\* A card of an overfull activity on display, showing fewer than zero spots.
C11_Witness ==
    /\ list.kind = "cards"
    /\ \E i \in DOMAIN list.cards :
          /\ Len(ShownRoster[i].participants) > ShownRoster[i].max_participants
          /\ list.cards[i].spotsLeft < 0

\* C12: every card on display of an activity without participants shows the
\* placeholder and no row; every card of an activity with participants shows
\* one row per participant, in roster order, and no placeholder.
C12_PlaceholderOrOneRowEach ==
    list.kind = "cards" =>
        \A i \in DOMAIN list.cards :
            LET ps == ShownRoster[i].participants
                card == list.cards[i]
            IN  IF Len(ps) = 0
                THEN card.placeholder = NoParticipants /\ card.rows = <<>>
                ELSE /\ card.placeholder = ""
                     /\ Len(card.rows) = Len(ps)
                     /\ \A j \in DOMAIN ps : card.rows[j].email = ps[j]

\* A card with the placeholder beside a card with two rows.
C12_Witness ==
    /\ list.kind = "cards"
    /\ \E i, k \in DOMAIN list.cards :
          /\ list.cards[i].placeholder = NoParticipants
          /\ list.cards[i].rows = <<>>
          /\ Len(list.cards[k].rows) = 2
          /\ list.cards[k].placeholder = ""

\* The text and the kind of the status message a signup that ended on
\* response r reports with.
ReportOf(r) ==
    IF r.st = "http" /\ r.body.json
    THEN IF r.ok
         THEN [text |-> r.body.message, kind |-> "success"]
         ELSE [text |-> IF r.body.has_detail /\ r.body.detail # ""
                        THEN r.body.detail ELSE GenericError,
               kind |-> "error"]
    ELSE [text |-> SignupFailed, kind |-> "error"]

Shown(m) == [text |-> m.text, kind |-> m.kind]

\* Signups complete in any order, each overwriting the status message with
\* its own report; nothing else writes the message's text or kind.
LastCompletionReports ==
    /\ \A r \in SignupResponses :
          SignupCompletes(r) => Shown(message') = ReportOf(r)
    /\ Shown(message') # Shown(message) =>
          \E r \in SignupResponses : SignupCompletes(r)

C14_ControlUnregistersItsRow ==
    [][\A i \in 1..Len(list.cards) : \A j \in 1..Len(list.cards[i].rows) :
          Click(i, j) =>
              /\ \E u \in unregs' \ unregs :
                    /\ unregs' = unregs \cup {u}
                    /\ u.activity = ShownRoster[i].name
                    /\ u.email = ShownRoster[i].participants[j]
                    /\ u.activity = list.cards[i].name
                    /\ u.email = list.cards[i].rows[j].email
              /\ UNCHANGED << loads, signups, loadsIssued, list >>]_vars

\* An unregister in flight for a participant of the roster that was on
\* display at the click, while a newer roster, in which that activity no
\* longer has that participant, is on display.
C14_Witness ==
    /\ list.kind = "cards"
    /\ shownVer = newestShown
    /\ \E u \in unregs :
          /\ \E i \in DOMAIN list.cards : list.cards[i].name = u.activity
          /\ \A i \in DOMAIN list.cards :
                list.cards[i].name = u.activity =>
                    \A j \in DOMAIN list.cards[i].rows :
                        list.cards[i].rows[j].email # u.email

C16_FailedLoadKeepsSelectorAndMessage ==
    [][\A st \in LoadResponses \ {"json"}, v \in 0..MaxVer :
          LoadCompletes(st, v) =>
              /\ list' = FailureNotice
              /\ UNCHANGED << options, message, timers, form >>]_vars

====
